---- MODULE Spec2Model ----
(***************************************************************************)
(* BLS aggregate-signature verification gadget (crates/bls-gadgets,        *)
(* bls.rs) and the epoch transition gadget (crates/epoch-snark,            *)
(* gadgets/single_update.rs).                                              *)
(*                                                                         *)
(* A constraint system is the sequence of constraints appended to it, each *)
(* recorded with the witness values of the wires it mentions, so that      *)
(* is_satisfied() is the conjunction of the constraints at those values.   *)
(*                                                                         *)
(* The pairing groups are modelled by discrete logarithms: a G1 point is   *)
(* the scalar a of a*g1, a G2 point the scalar b of b*g2, the target group *)
(* is written additively, and e(a*g1, b*g2) = (a*b)*gt.  A secret key sk   *)
(* has public key sk*g2 and signs the hash h as sk*h.                      *)
(***************************************************************************)
EXTENDS Integers, Sequences, FiniteSets, TLC

\* ------------------------------------------------------------------ bounds
\* order of the groups G1, G2 and GT
GroupOrder == 3
\* longest public-key list, bitmap and batch that is enumerated
MaxValidators == 2
\* longest chain of epoch transitions
MaxChain == 2

\* ------------------------------------------------------------------ groups
G1 == 0 .. (GroupOrder - 1)
G2 == 0 .. (GroupOrder - 1)

\* P::G2Var::zero(), the group identity
G2Zero == 0

\* E::G2Projective::prime_subgroup_generator()
G2Generator == 1 % GroupOrder

\* P::GTVar::one(), the identity of the target group
GTOne == 0

\* aggregated_pk += &adder
G2Add(p, q) == (p + q) % GroupOrder

\* g2_generator.negate()
G2Negate(p) == (GroupOrder - p) % GroupOrder

\* bit.select(first, second): first when the bit is true, second otherwise
Select(bit, first, second) == IF bit THEN first ELSE second

\* P::prepare_g1: the pairing-ready encoding of a G1 point
PrepareG1(p) == [g1_prepared |-> p]

\* P::prepare_g2: the pairing-ready encoding of a G2 point
PrepareG2(q) == [g2_prepared |-> q]

Min(a, b) == IF a < b THEN a ELSE b

RECURSIVE PairingSum(_, _, _)
PairingSum(g1, g2, n) ==
    IF n = 0 THEN GTOne
    ELSE (PairingSum(g1, g2, n - 1)
            + g1[n].g1_prepared * g2[n].g2_prepared) % GroupOrder

\* P::product_of_pairings: the pairing collaborator pairs the two sequences
\* position by position (its Miller loop zips them), so the terms one
\* sequence has beyond the length of the other are left out.
ProductOfPairings(g1, g2) == PairingSum(g1, g2, Min(Len(g1), Len(g2)))

\* ------------------------------------------------------- constraint system
\* One constraint, with the witness values of its wires.
Constraint(kind, g1, g2, p1, p2, bits, a, b) ==
    [kind |-> kind, g1 |-> g1, g2 |-> g2, p1 |-> p1, p2 |-> p2,
     bits |-> bits, a |-> a, b |-> b]

\* <P::G1Var as AllocVar>::new_witness
G1Witness(p) == Constraint("g1_witness", <<p>>, <<>>, <<>>, <<>>, <<>>, 0, 0)

\* <P::G2Var as AllocVar>::new_witness
G2Witness(q) == Constraint("g2_witness", <<>>, <<q>>, <<>>, <<>>, <<>>, 0, 0)

\* Boolean::new_witness / constrain_bool
BoolWitness(bits) == Constraint("bool_witness", <<>>, <<>>, <<>>, <<>>, bits, 0, 0)

\* FpVar::new_witness
FpWitness(x) == Constraint("fp_witness", <<>>, <<>>, <<>>, <<>>, <<>>, x, 0)

\* enforce_maximum_occurrences_in_bitmap(max, value)
MaxOccurrences(bits, max, value) ==
    Constraint("max_occurrences", <<>>, <<>>, <<>>, <<>>, bits, max,
               IF value THEN 1 ELSE 0)

\* bit.select(pk, zero): the conditional selection of one key
SelectKey(bit, pk) == Constraint("select", <<>>, <<pk>>, <<>>, <<>>, <<bit>>, 0, 0)

\* bls_equation.enforce_equal(gt_one) over product_of_pairings(g1, g2)
PairingProductIsOne(p1, p2) ==
    Constraint("pairing_product_is_one", <<>>, <<>>, p1, p2, <<>>, 0, 0)

\* x.conditional_enforce_equal(y, cond)
ConditionalEqual(kind, x, y, cond) ==
    Constraint(kind, <<>>, <<>>, <<>>, <<>>, <<cond>>, x, y)

\* number of entries of the bitmap equal to value
Occurrences(bits, value) == Cardinality({i \in DOMAIN bits : bits[i] = value})

\* a witness allocated for a public key: the tests hold that the identity,
\* the public key of the zero secret key, is no point the allocation accepts
HoldsG2Witness(c) == c.g2[1] # G2Zero

\* the bitmap holds the counted value at most max times
HoldsMaxOccurrences(c) == Occurrences(c.bits, c.b = 1) <= c.a

\* the product of the pairings is the identity of the target group
HoldsPairingProduct(c) == ProductOfPairings(c.p1, c.p2) = GTOne

\* the two values are equal when the condition is true
HoldsConditionalEqual(c) == c.bits[1] => c.a = c.b

\* Whether one constraint holds at its witness values.
Holds(c) ==
    CASE c.kind = "g2_witness" -> HoldsG2Witness(c)
      [] c.kind = "max_occurrences" -> HoldsMaxOccurrences(c)
      [] c.kind = "pairing_product_is_one" -> HoldsPairingProduct(c)
      [] c.kind \in {"entropy_equal", "index_next"} -> HoldsConditionalEqual(c)
      [] OTHER -> TRUE

\* cs.is_satisfied()
IsSatisfied(system) == \A i \in DOMAIN system : Holds(system[i])

\* ------------------------------------------------------------ BLS gadget
\* The outcome of a gadget call: "Ok", or "Panic" when an assertion aborts
\* the host, with the constraint system as the call leaves it.
Outcome(result, system, message_hash, aggregated) ==
    [result |-> result, cs |-> system, message_hash |-> message_hash,
     aggregated_pk |-> aggregated]

\* the loop adding the keys whose bit is false
RECURSIVE AggregateUnselected(_, _, _)
AggregateUnselected(pks, bits, n) ==
    IF n = 0 THEN G2Zero
    ELSE G2Add(AggregateUnselected(pks, bits, n - 1), Select(bits[n], G2Zero, pks[n]))

\* the loop of enforce_aggregated_pubkeys over the first n keys
RECURSIVE AggregateSelected(_, _, _)
AggregateSelected(pks, bits, n) ==
    IF n = 0 THEN G2Zero
    ELSE G2Add(AggregateSelected(pks, bits, n - 1), Select(bits[n], pks[n], G2Zero))

\* BlsVerifyGadget::enforce_aggregated_pubkeys
EnforceAggregatedPubkeys(system, pks, bits) ==
    IF Len(bits) # Len(pks)
    THEN Outcome("Panic", system, 0, G2Zero)
    ELSE Outcome("Ok",
                 system \o [i \in 1 .. Len(pks) |-> SelectKey(bits[i], pks[i])],
                 0, AggregateSelected(pks, bits, Len(pks)))

\* the loop of enforce_aggregated_all_pubkeys over the first n keys
RECURSIVE AggregateAll(_, _)
AggregateAll(pks, n) ==
    IF n = 0 THEN G2Zero ELSE G2Add(AggregateAll(pks, n - 1), pks[n])

\* BlsVerifyGadget::enforce_aggregated_all_pubkeys
EnforceAggregatedAllPubkeys(system, pks) ==
    Outcome("Ok", system, 0, AggregateAll(pks, Len(pks)))

\* enforce_bitmap bounding the true bits instead of the false ones
EnforceBitmapCountingSigners(system, pks, bits, message_hash, max_non_signers) ==
    LET counted == Append(system, MaxOccurrences(bits, max_non_signers, TRUE))
        agg == EnforceAggregatedPubkeys(counted, pks, bits)
    IN  Outcome(agg.result, agg.cs, message_hash, agg.aggregated_pk)

\* BlsVerifyGadget::enforce_bitmap
EnforceBitmap(system, pks, bits, message_hash, max_non_signers) ==
    LET counted == Append(system, MaxOccurrences(bits, max_non_signers, FALSE))
        agg == EnforceAggregatedPubkeys(counted, pks, bits)
    IN  Outcome(agg.result, agg.cs, message_hash, agg.aggregated_pk)

\* the generator prepared without the negation
PrepareSignatureGenerator(sig) ==
    <<PrepareG1(sig), PrepareG2(G2Generator)>>

\* BlsVerifyGadget::prepare_signature_neg_generator
PrepareSignatureNegGenerator(sig) ==
    <<PrepareG1(sig), PrepareG2(G2Negate(G2Generator))>>

\* BlsVerifyGadget::enforce_bls_equation
EnforceBlsEquation(system, p1, p2) ==
    Outcome("Ok", Append(system, PairingProductIsOne(p1, p2)), 0, G2Zero)

\* verify pairing the signature with the aggregate key and the hash with
\* the negated generator
VerifyMismatchedTerms(system, pks, bits, message_hash, sig, max_non_signers) ==
    LET eb == EnforceBitmap(system, pks, bits, message_hash, max_non_signers)
        sg == PrepareSignatureNegGenerator(sig)
    IN  IF eb.result # "Ok" THEN eb
        ELSE EnforceBlsEquation(eb.cs,
                                <<sg[1], PrepareG1(eb.message_hash)>>,
                                <<PrepareG2(eb.aggregated_pk), sg[2]>>)

\* BlsVerifyGadget::verify
Verify(system, pks, bits, message_hash, sig, max_non_signers) ==
    LET eb == EnforceBitmap(system, pks, bits, message_hash, max_non_signers)
        prepared_aggregated_pk == PrepareG2(eb.aggregated_pk)
        prepared_message_hash == PrepareG1(eb.message_hash)
        sg == PrepareSignatureNegGenerator(sig)
    IN  IF eb.result # "Ok" THEN eb
        ELSE EnforceBlsEquation(eb.cs,
                                <<sg[1], prepared_message_hash>>,
                                <<sg[2], prepared_aggregated_pk>>)

\* batch_verify_prepared leaving the public keys out of the G2 terms
BatchVerifyPreparedWithoutKeys(system, prepared_pks, prepared_hashes, sig) ==
    LET sg == PrepareSignatureNegGenerator(sig)
    IN  EnforceBlsEquation(system, <<sg[1]>> \o prepared_hashes, <<sg[2]>>)

\* BlsVerifyGadget::batch_verify_prepared
BatchVerifyPrepared(system, prepared_pks, prepared_hashes, sig) ==
    LET sg == PrepareSignatureNegGenerator(sig)
        prepared_g1s == <<sg[1]>> \o prepared_hashes
        prepared_g2s == <<sg[2]>> \o prepared_pks
    IN  EnforceBlsEquation(system, prepared_g1s, prepared_g2s)

\* BlsVerifyGadget::batch_verify
BatchVerify(system, pks, hashes, sig) ==
    BatchVerifyPrepared(system,
                        [i \in 1 .. Len(pks) |-> PrepareG2(pks[i])],
                        [i \in 1 .. Len(hashes) |-> PrepareG1(hashes[i])],
                        sig)

\* cs_verify of the tests: allocates the witnesses, calls verify and unwraps
CsVerify(pks, bits, message_hash, sig, max_non_signers) ==
    LET allocated ==
            <<G1Witness(message_hash), G1Witness(sig)>>
            \o [i \in 1 .. Len(pks) |-> G2Witness(pks[i])]
            \o <<BoolWitness(bits), FpWitness(max_non_signers)>>
    IN  Verify(allocated, pks, bits, message_hash, sig, max_non_signers)

\* ------------------------------------- the gadget with a failing collaborator
\* The operators below are the gadget's functions when the first call of the
\* collaborator named failing returns Err(SynthesisError); a call followed by
\* `?` returns the error from the enclosing function at once.

\* the collaborator calls of enforce_bitmap and enforce_aggregated_pubkeys
EnforceBitmapCalls == {"enforce_maximum_occurrences_in_bitmap", "select"}

\* the collaborator calls of prepare_signature_neg_generator
PrepareSignatureCalls ==
    {"prepare_g1(signature)", "new_constant", "negate", "prepare_g2(g2_neg_generator)"}

\* the collaborator calls of enforce_bls_equation
BlsEquationCalls == {"product_of_pairings", "enforce_equal"}

\* the collaborator calls verify makes itself
VerifyCalls == {"prepare_g2(aggregated_pk)", "prepare_g1(message_hash)"}

\* the collaborator calls batch_verify makes itself
BatchVerifyCalls == {"prepare_g1(message_hash)", "prepare_g2(pubkey)"}

\* enforce_aggregated_pubkeys: bit.select(..)? in the loop
EnforceAggregatedPubkeysWithFailure(system, pks, bits, failing) ==
    IF Len(bits) # Len(pks)
    THEN Outcome("Panic", system, 0, G2Zero)
    ELSE IF failing = "select" /\ Len(pks) > 0
    THEN Outcome("Err", system, 0, G2Zero)
    ELSE EnforceAggregatedPubkeys(system, pks, bits)

\* enforce_bitmap: enforce_maximum_occurrences_in_bitmap(..)? and
\* enforce_aggregated_pubkeys(..)?
EnforceBitmapWithFailure(system, pks, bits, message_hash, max_non_signers, failing) ==
    IF failing = "enforce_maximum_occurrences_in_bitmap"
    THEN Outcome("Err", system, message_hash, G2Zero)
    ELSE LET counted == Append(system, MaxOccurrences(bits, max_non_signers, FALSE))
             agg == EnforceAggregatedPubkeysWithFailure(counted, pks, bits, failing)
         IN  Outcome(agg.result, agg.cs, message_hash, agg.aggregated_pk)

\* enforce_bls_equation: product_of_pairings(..)? and enforce_equal(..)?
EnforceBlsEquationWithFailure(system, p1, p2, failing) ==
    IF failing \in BlsEquationCalls
    THEN Outcome("Err", system, 0, G2Zero)
    ELSE EnforceBlsEquation(system, p1, p2)

\* verify: every call is followed by `?`
VerifyWithFailure(system, pks, bits, message_hash, sig, max_non_signers, failing) ==
    LET eb == EnforceBitmapWithFailure(system, pks, bits, message_hash,
                                       max_non_signers, failing)
        sg == PrepareSignatureNegGenerator(sig)
    IN  IF eb.result # "Ok" THEN eb
        ELSE IF failing \in VerifyCalls \cup PrepareSignatureCalls
        THEN Outcome("Err", eb.cs, 0, G2Zero)
        ELSE EnforceBlsEquationWithFailure(eb.cs,
                                           <<sg[1], PrepareG1(eb.message_hash)>>,
                                           <<sg[2], PrepareG2(eb.aggregated_pk)>>,
                                           failing)

\* batch_verify_prepared: prepare_signature_neg_generator(..)? and
\* enforce_bls_equation(..)?
BatchVerifyPreparedWithFailure(system, prepared_pks, prepared_hashes, sig, failing) ==
    IF failing \in PrepareSignatureCalls
    THEN Outcome("Err", system, 0, G2Zero)
    ELSE LET sg == PrepareSignatureNegGenerator(sig)
         IN  EnforceBlsEquationWithFailure(system, <<sg[1]>> \o prepared_hashes,
                                           <<sg[2]>> \o prepared_pks, failing)

\* batch_verify: the prepared hashes and keys are collected with `?`, and the
\* result of batch_verify_prepared is returned
BatchVerifyWithFailure(system, pks, hashes, sig, failing) ==
    IF \/ failing = "prepare_g1(message_hash)" /\ Len(hashes) > 0
       \/ failing = "prepare_g2(pubkey)" /\ Len(pks) > 0
    THEN Outcome("Err", system, 0, G2Zero)
    ELSE BatchVerifyPreparedWithFailure(system,
                                        [i \in 1 .. Len(pks) |-> PrepareG2(pks[i])],
                                        [i \in 1 .. Len(hashes) |-> PrepareG1(hashes[i])],
                                        sig, failing)

\* -------------------------------------------------- epoch transition gadget
\* the hash of the epoch data to G1 (EpochData::constrain): a point of G1
\* other than the identity, decided by the epoch's fields
HashToG1(epoch_data) ==
    IF GroupOrder = 1 THEN 0
    ELSE 1 + ((epoch_data.index + epoch_data.epoch_entropy
               + Len(epoch_data.public_keys)) % (GroupOrder - 1))

\* EpochData::constrain(previous_index, ..): the epoch's fields as wires and
\* the message hash; a nonzero index continues the previous one
EpochDataConstrain(system, epoch_data, previous_index) ==
    [cs |-> system \o <<FpWitness(epoch_data.index),
                        ConditionalEqual("index_next", previous_index + 1,
                                         epoch_data.index, epoch_data.index # 0)>>,
     index |-> epoch_data.index,
     epoch_entropy |-> epoch_data.epoch_entropy,
     parent_entropy |-> epoch_data.parent_entropy,
     maximum_non_signers |-> epoch_data.maximum_non_signers,
     pubkeys |-> epoch_data.public_keys,
     message_hash |-> HashToG1(epoch_data)]

\* the value of the epoch variables when no ConstrainedEpoch was returned
NoEpoch ==
    [new_pubkeys |-> <<>>, new_max_non_signers |-> 0, message_hash |-> 0,
     aggregate_pk |-> G2Zero, index |-> 0, epoch_entropy |-> 0,
     parent_entropy |-> 0]

\* the entropy check enforced whatever the index of the epoch is
EntropyCheckIgnoringIndex(index_bit, constrain_entropy_bit) == constrain_entropy_bit

\* the condition of the entropy check: index_bit.and(&constrain_entropy_bit)
EntropyCheckCondition(index_bit, constrain_entropy_bit) ==
    index_bit /\ constrain_entropy_bit

\* the wire previous_epoch_index.conditional_enforce_equal is called on
EntropyCheckSubject(previous_context) == previous_context.index

\* the keys of the new epoch in the place of those of the previous one
NewEpochKeys(new_update, previous_context) == new_update.epoch_data.public_keys

\* the keys enforce_bitmap is given: previous_pubkeys
BitmapKeys(new_update, previous_context) == previous_context.pubkeys

\* the threshold the new epoch declares in the place of the previous one
NewEpochThreshold(new_update, previous_context) ==
    new_update.epoch_data.maximum_non_signers

\* the threshold enforce_bitmap is given: previous_max_non_signers
BitmapThreshold(new_update, previous_context) == previous_context.max_non_signers

\* SingleUpdate::constrain, after its assertion on the number of validators
SingleUpdateConstrain(system, new_update, previous_context, constrain_entropy_bit) ==
    LET epoch_data == EpochDataConstrain(system, new_update.epoch_data, previous_context.index)
        index_bit == ~(epoch_data.index = 0)
        checked == Append(epoch_data.cs,
                          ConditionalEqual("entropy_equal",
                                           EntropyCheckSubject(previous_context),
                                           epoch_data.parent_entropy,
                                           EntropyCheckCondition(index_bit,
                                                                 constrain_entropy_bit)))
        signed_bitmap == new_update.signed_bitmap
        eb == EnforceBitmap(Append(checked, BoolWitness(signed_bitmap)),
                            BitmapKeys(new_update, previous_context), signed_bitmap,
                            epoch_data.message_hash,
                            BitmapThreshold(new_update, previous_context))
    IN  [result |-> eb.result,
         cs |-> eb.cs,
         epoch |-> IF eb.result # "Ok" THEN NoEpoch
                   ELSE [new_pubkeys |-> epoch_data.pubkeys,
                         new_max_non_signers |-> epoch_data.maximum_non_signers,
                         message_hash |-> eb.message_hash,
                         aggregate_pk |-> eb.aggregated_pk,
                         index |-> epoch_data.index,
                         epoch_entropy |-> epoch_data.epoch_entropy,
                         parent_entropy |-> epoch_data.parent_entropy]]

\* the previous-epoch context the next transition of a chain is given
NextContext(epoch) ==
    [pubkeys |-> epoch.new_pubkeys, index |-> epoch.index,
     randomness |-> epoch.epoch_entropy,
     max_non_signers |-> epoch.new_max_non_signers]

\* SingleUpdate::constrain
Constrain(system, new_update, previous_context, constrain_entropy_bit, validators) ==
    IF validators # Len(new_update.epoch_data.public_keys)
    THEN [result |-> "Panic", cs |-> system, epoch |-> NoEpoch]
    ELSE SingleUpdateConstrain(system, new_update, previous_context,
                               constrain_entropy_bit)

\* the collaborator calls constrain makes itself
ConstrainCalls ==
    {"epoch_data.constrain", "is_eq_zero", "and", "conditional_enforce_equal",
     "constrain_bool"}

\* SingleUpdate::constrain, after its assertion, when the first call of the
\* collaborator named failing returns an error: every call is followed by `?`
\* but conditional_enforce_equal, whose Result is dropped
SingleUpdateConstrainWithFailure(system, new_update, previous_context, constrain_entropy_bit, failing) ==
    LET epoch_data == EpochDataConstrain(system, new_update.epoch_data,
                                         previous_context.index)
        index_bit == ~(epoch_data.index = 0)
        checked == IF failing = "conditional_enforce_equal"
                   THEN epoch_data.cs
                   ELSE Append(epoch_data.cs,
                               ConditionalEqual("entropy_equal",
                                                EntropyCheckSubject(previous_context),
                                                epoch_data.parent_entropy,
                                                EntropyCheckCondition(index_bit,
                                                                      constrain_entropy_bit)))
        signed_bitmap == new_update.signed_bitmap
        eb == EnforceBitmapWithFailure(Append(checked, BoolWitness(signed_bitmap)),
                                       BitmapKeys(new_update, previous_context),
                                       signed_bitmap, epoch_data.message_hash,
                                       BitmapThreshold(new_update, previous_context),
                                       failing)
    IN  IF failing = "epoch_data.constrain"
        THEN [result |-> "Err", cs |-> system, epoch |-> NoEpoch]
        ELSE IF failing \in {"is_eq_zero", "and"}
        THEN [result |-> "Err", cs |-> epoch_data.cs, epoch |-> NoEpoch]
        ELSE IF failing = "constrain_bool"
        THEN [result |-> "Err", cs |-> checked, epoch |-> NoEpoch]
        ELSE [result |-> eb.result,
              cs |-> eb.cs,
              epoch |-> IF eb.result # "Ok" THEN NoEpoch
                        ELSE [new_pubkeys |-> epoch_data.pubkeys,
                              new_max_non_signers |-> epoch_data.maximum_non_signers,
                              message_hash |-> eb.message_hash,
                              aggregate_pk |-> eb.aggregated_pk,
                              index |-> epoch_data.index,
                              epoch_entropy |-> epoch_data.epoch_entropy,
                              parent_entropy |-> epoch_data.parent_entropy]]

\* SingleUpdate::constrain with a failing collaborator
ConstrainWithFailure(system, new_update, previous_context, constrain_entropy_bit, validators, failing) ==
    IF validators # Len(new_update.epoch_data.public_keys)
    THEN [result |-> "Panic", cs |-> system, epoch |-> NoEpoch]
    ELSE SingleUpdateConstrainWithFailure(system, new_update, previous_context,
                                          constrain_entropy_bit, failing)

\* ------------------------------------------------------------------ inputs
SeqsUpTo(S, n) == UNION {[1 .. k -> S] : k \in 0 .. n}

KeyLists == SeqsUpTo(G2, MaxValidators)
HashLists == SeqsUpTo(G1, MaxValidators)
Bitmaps == SeqsUpTo(BOOLEAN, MaxValidators)
Thresholds == 0 .. (MaxValidators + 1)

\* the validator sets of the epochs: every validator of one epoch holds the
\* same one of two keys
EpochKeys == {G2Generator, G2Add(G2Generator, G2Generator)}
EpochKeyLists == {[i \in 1 .. n |-> k] : n \in 0 .. MaxValidators, k \in EpochKeys}
EpochIndices == 0 .. 2
EpochEntropies == 0 .. 1
EpochThresholds == 0 .. 1

\* ------------------------------------------------------------------- state
VARIABLES
    cs,                   \* the constraints the last call appended
    op,                   \* the operation that was called
    result,               \* "none", "Ok", or "Panic" when the host aborted
    pub_keys,             \* the public keys the BLS gadget was given
    signed_bitmap,        \* the bitmap the BLS gadget was given
    message_hashes,       \* the message hash, or the hashes of a batch
    signature,            \* the signature the BLS gadget was given
    maximum_non_signers,  \* the threshold the BLS gadget was given
    aggregated_pk,        \* the aggregate key the BLS gadget returned
    previous,             \* the previous-epoch context of the transition
    update,               \* the SingleUpdate that was constrained
    entropy_bit,          \* constrain_entropy_bit of the transition
    num_validators,       \* num_validators of the chain
    epoch,                \* the ConstrainedEpoch the transition returned
    earlier_satisfied,    \* whether the constraints of the earlier transitions hold
    steps,                \* the number of transitions constrained
    failed_call           \* the collaborator call that returned an error, or "none"

bls_vars == <<pub_keys, signed_bitmap, message_hashes, signature,
              maximum_non_signers, aggregated_pk>>
epoch_vars == <<previous, update, entropy_bit, num_validators, epoch,
                earlier_satisfied, steps>>
vars == <<cs, op, result, bls_vars, epoch_vars, failed_call>>

NoContext == [pubkeys |-> <<>>, index |-> 0, randomness |-> 0, max_non_signers |-> 0]

EpochData(index, epoch_entropy, parent_entropy, max_non_signers, public_keys) ==
    [index |-> index, epoch_entropy |-> epoch_entropy,
     parent_entropy |-> parent_entropy,
     maximum_non_signers |-> max_non_signers, public_keys |-> public_keys]

SingleUpdate(epoch_data, bits) == [epoch_data |-> epoch_data, signed_bitmap |-> bits]

\* a fresh constraint system: ConstraintSystem::new_ref()
Init ==
    /\ cs = <<>>
    /\ op = "none"
    /\ result = "none"
    /\ pub_keys = <<>>
    /\ signed_bitmap = <<>>
    /\ message_hashes = <<>>
    /\ signature = 0
    /\ maximum_non_signers = 0
    /\ aggregated_pk = G2Zero
    /\ previous = NoContext
    /\ update = SingleUpdate(EpochData(0, 0, 0, 0, <<>>), <<>>)
    /\ entropy_bit = FALSE
    /\ num_validators = 0
    /\ epoch = NoEpoch
    /\ earlier_satisfied = TRUE
    /\ steps = 0
    /\ failed_call = "none"

\* ----------------------------------------------------- BLS gadget actions
Called(name, outcome, pks, bits, hashes, sig, max_non_signers) ==
    /\ op' = name
    /\ result' = outcome.result
    /\ cs' = outcome.cs
    /\ pub_keys' = pks
    /\ signed_bitmap' = bits
    /\ message_hashes' = hashes
    /\ signature' = sig
    /\ maximum_non_signers' = max_non_signers
    /\ aggregated_pk' = outcome.aggregated_pk
    /\ UNCHANGED <<epoch_vars, failed_call>>

\* cs_verify: verify on freshly allocated witnesses
DoCsVerify ==
    /\ op = "none"
    /\ \E pks \in KeyLists, bits \in Bitmaps, h \in G1, sig \in G1,
          max_non_signers \in Thresholds :
          Called("cs_verify", CsVerify(pks, bits, h, sig, max_non_signers),
                 pks, bits, <<h>>, sig, max_non_signers)

\* verify on wires of an existing system
DoVerify ==
    /\ op = "none"
    /\ \E pks \in KeyLists, bits \in Bitmaps, h \in G1, sig \in G1,
          max_non_signers \in Thresholds :
          Called("verify", Verify(<<>>, pks, bits, h, sig, max_non_signers),
                 pks, bits, <<h>>, sig, max_non_signers)

\* batch_verify on wires of an existing system
DoBatchVerify ==
    /\ op = "none"
    /\ \E pks \in KeyLists, hashes \in HashLists, sig \in G1 :
          Called("batch_verify", BatchVerify(<<>>, pks, hashes, sig),
                 pks, <<>>, hashes, sig, 0)

\* batch_verify_prepared on prepared points of an existing system
DoBatchVerifyPrepared ==
    /\ op = "none"
    /\ \E pks \in KeyLists, hashes \in HashLists, sig \in G1 :
          Called("batch_verify_prepared",
                 BatchVerifyPrepared(<<>>,
                                     [i \in 1 .. Len(pks) |-> PrepareG2(pks[i])],
                                     [i \in 1 .. Len(hashes) |-> PrepareG1(hashes[i])],
                                     sig),
                 pks, <<>>, hashes, sig, 0)

\* enforce_bitmap on wires of an existing system
DoEnforceBitmap ==
    /\ op = "none"
    /\ \E pks \in KeyLists, bits \in Bitmaps, h \in G1,
          max_non_signers \in Thresholds :
          Called("enforce_bitmap",
                 EnforceBitmap(<<>>, pks, bits, h, max_non_signers),
                 pks, bits, <<h>>, 0, max_non_signers)

\* enforce_aggregated_pubkeys on wires of an existing system
DoEnforceAggregatedPubkeys ==
    /\ op = "none"
    /\ \E pks \in KeyLists, bits \in Bitmaps :
          Called("enforce_aggregated_pubkeys",
                 EnforceAggregatedPubkeys(<<>>, pks, bits),
                 pks, bits, <<>>, 0, 0)

\* enforce_aggregated_all_pubkeys on wires of an existing system
DoEnforceAggregatedAllPubkeys ==
    /\ op = "none"
    /\ \E pks \in KeyLists :
          Called("enforce_aggregated_all_pubkeys",
                 EnforceAggregatedAllPubkeys(<<>>, pks),
                 pks, <<>>, <<>>, 0, 0)

Next ==
    \/ DoVerify
    \/ DoCsVerify
    \/ DoBatchVerify
    \/ DoBatchVerifyPrepared
    \/ DoEnforceBitmap
    \/ DoEnforceAggregatedPubkeys
    \/ DoEnforceAggregatedAllPubkeys

Spec == Init /\ [][Next]_vars

\* ------------------------------------------------- epoch chain actions
\* the enclosing proof fixes num_validators and the context of the first
\* transition
DoStartChain ==
    /\ op = "none"
    /\ \E pks \in EpochKeyLists, index \in 0 .. 1, randomness \in EpochEntropies,
          max_non_signers \in EpochThresholds, validators \in 0 .. MaxValidators :
          /\ previous' = [pubkeys |-> pks, index |-> index,
                          randomness |-> randomness,
                          max_non_signers |-> max_non_signers]
          /\ num_validators' = validators
    /\ op' = "start"
    /\ UNCHANGED <<cs, result, bls_vars, update, entropy_bit, epoch,
                   earlier_satisfied, steps, failed_call>>

Constrained(outcome, upd, bit) ==
    /\ op' = "constrain"
    /\ result' = outcome.result
    /\ cs' = outcome.cs
    /\ update' = upd
    /\ entropy_bit' = bit
    /\ epoch' = outcome.epoch
    /\ steps' = steps + 1
    /\ UNCHANGED <<bls_vars, previous, num_validators, earlier_satisfied,
                   failed_call>>

\* constrain aborting on its first assertion, before it reads anything else
DoConstrainWrongSize ==
    /\ op \in {"start", "handoff"}
    /\ \E public_keys \in EpochKeyLists :
          /\ num_validators # Len(public_keys)
          /\ LET upd == SingleUpdate(EpochData(0, 0, 0, 0, public_keys), <<>>)
             IN  Constrained(Constrain(<<>>, upd, previous, FALSE, num_validators),
                             upd, FALSE)

\* constrain on an update with num_validators public keys
DoConstrain ==
    /\ op \in {"start", "handoff"}
    /\ \E public_keys \in EpochKeyLists, bits \in Bitmaps,
          index \in EpochIndices, epoch_entropy \in EpochEntropies,
          parent_entropy \in EpochEntropies,
          max_non_signers \in EpochThresholds, bit \in BOOLEAN :
          /\ num_validators = Len(public_keys)
          /\ LET upd == SingleUpdate(EpochData(index, epoch_entropy, parent_entropy,
                                               max_non_signers, public_keys), bits)
             IN  Constrained(Constrain(<<>>, upd, previous, bit, num_validators),
                             upd, bit)

\* the enclosing proof hands the returned epoch to the next transition, whose
\* constraints join those of the transitions before it
DoHandoff ==
    /\ op = "constrain"
    /\ result = "Ok"
    /\ steps < MaxChain
    /\ op' = "handoff"
    /\ previous' = NextContext(epoch)
    /\ earlier_satisfied' = (earlier_satisfied /\ IsSatisfied(cs))
    /\ cs' = <<>>
    /\ update' = SingleUpdate(EpochData(0, 0, 0, 0, <<>>), <<>>)
    /\ entropy_bit' = FALSE
    /\ epoch' = NoEpoch
    /\ UNCHANGED <<result, bls_vars, num_validators, steps, failed_call>>

NextEpoch ==
    \/ DoStartChain
    \/ DoConstrainWrongSize
    \/ DoConstrain
    \/ DoHandoff

SpecEpoch == Init /\ [][NextEpoch]_vars

\* the gadgets of both crates
NextAll == Next \/ NextEpoch

SpecAll == Init /\ [][NextAll]_vars

\* ------------------------------------- actions with a failing collaborator
\* The inputs are those on which the failing call is made: lists of equal
\* length with one element at least, and the number of validators asserted.
CalledWithFailure(name, outcome, failing, pks, bits, hashes, sig, max_non_signers) ==
    /\ op' = name
    /\ result' = outcome.result
    /\ cs' = outcome.cs
    /\ pub_keys' = pks
    /\ signed_bitmap' = bits
    /\ message_hashes' = hashes
    /\ signature' = sig
    /\ maximum_non_signers' = max_non_signers
    /\ aggregated_pk' = outcome.aggregated_pk
    /\ failed_call' = failing
    /\ UNCHANGED epoch_vars

\* verify while one of its collaborator calls fails
DoVerifyFailing ==
    /\ op = "none"
    /\ \E pks \in KeyLists, bits \in Bitmaps, h \in G1, sig \in G1,
          max_non_signers \in Thresholds,
          failing \in EnforceBitmapCalls \cup VerifyCalls
                      \cup PrepareSignatureCalls \cup BlsEquationCalls :
          /\ Len(pks) = Len(bits)
          /\ Len(pks) > 0
          /\ CalledWithFailure("verify",
                               VerifyWithFailure(<<>>, pks, bits, h, sig,
                                                 max_non_signers, failing),
                               failing, pks, bits, <<h>>, sig, max_non_signers)

\* batch_verify while one of its collaborator calls fails
DoBatchVerifyFailing ==
    /\ op = "none"
    /\ \E pks \in KeyLists, hashes \in HashLists, sig \in G1,
          failing \in BatchVerifyCalls \cup PrepareSignatureCalls
                      \cup BlsEquationCalls :
          /\ Len(pks) > 0
          /\ Len(hashes) > 0
          /\ CalledWithFailure("batch_verify",
                               BatchVerifyWithFailure(<<>>, pks, hashes, sig, failing),
                               failing, pks, <<>>, hashes, sig, 0)

\* enforce_bitmap while one of its collaborator calls fails
DoEnforceBitmapFailing ==
    /\ op = "none"
    /\ \E pks \in KeyLists, bits \in Bitmaps, h \in G1,
          max_non_signers \in Thresholds, failing \in EnforceBitmapCalls :
          /\ Len(pks) = Len(bits)
          /\ Len(pks) > 0
          /\ CalledWithFailure("enforce_bitmap",
                               EnforceBitmapWithFailure(<<>>, pks, bits, h,
                                                        max_non_signers, failing),
                               failing, pks, bits, <<h>>, 0, max_non_signers)

\* enforce_aggregated_pubkeys while a selection fails
DoEnforceAggregatedPubkeysFailing ==
    /\ op = "none"
    /\ \E pks \in KeyLists, bits \in Bitmaps :
          /\ Len(pks) = Len(bits)
          /\ Len(pks) > 0
          /\ CalledWithFailure("enforce_aggregated_pubkeys",
                               EnforceAggregatedPubkeysWithFailure(<<>>, pks, bits,
                                                                   "select"),
                               "select", pks, bits, <<>>, 0, 0)

\* constrain while one of its collaborator calls fails
DoConstrainFailing ==
    /\ op \in {"start", "handoff"}
    /\ \E public_keys \in EpochKeyLists, bits \in Bitmaps,
          index \in EpochIndices, epoch_entropy \in EpochEntropies,
          parent_entropy \in EpochEntropies,
          max_non_signers \in EpochThresholds, bit \in BOOLEAN,
          failing \in ConstrainCalls \cup EnforceBitmapCalls :
          /\ num_validators = Len(public_keys)
          /\ Len(bits) = Len(previous.pubkeys)
          /\ Len(bits) > 0
          /\ LET upd == SingleUpdate(EpochData(index, epoch_entropy, parent_entropy,
                                               max_non_signers, public_keys), bits)
                 outcome == ConstrainWithFailure(<<>>, upd, previous, bit,
                                                 num_validators, failing)
             IN  /\ op' = "constrain"
                 /\ result' = outcome.result
                 /\ cs' = outcome.cs
                 /\ update' = upd
                 /\ entropy_bit' = bit
                 /\ epoch' = outcome.epoch
                 /\ steps' = steps + 1
                 /\ failed_call' = failing
                 /\ UNCHANGED <<bls_vars, previous, num_validators,
                                earlier_satisfied>>

NextFaults ==
    \/ DoVerifyFailing
    \/ DoBatchVerifyFailing
    \/ DoEnforceBitmapFailing
    \/ DoEnforceAggregatedPubkeysFailing
    \/ DoStartChain
    \/ DoConstrainFailing

\* the gadgets of both crates over collaborators of which one call fails
SpecFaults == Init /\ [][NextFaults]_vars

\* ------------------------------------------------------------ properties
\* keygen: the secret key of a public key sk * g2
SecretKey(pk) == CHOOSE sk \in 0 .. (GroupOrder - 1) : (sk * G2Generator) % GroupOrder = pk

\* the signature of the secret key sk on the hash h: h * sk
Sign(h, sk) == (h * sk) % GroupOrder

\* the sum over the indices in S of key i's signature on hash i
RECURSIVE SumOfSignatures(_, _, _)
SumOfSignatures(S, pks, hashes) ==
    IF S = {} THEN 0
    ELSE LET i == CHOOSE x \in S : TRUE
         IN  (Sign(hashes[i], SecretKey(pks[i]))
                + SumOfSignatures(S \ {i}, pks, hashes)) % GroupOrder

\* the group sum of the keys at the indices in S
RECURSIVE SumOfKeys(_, _)
SumOfKeys(S, pks) ==
    IF S = {} THEN G2Zero
    ELSE LET i == CHOOSE x \in S : TRUE
         IN  G2Add(pks[i], SumOfKeys(S \ {i}, pks))

\* the indices the bitmap marks as signers
Signers(bits) == {i \in DOMAIN bits : bits[i]}

NonSigners(bits) == Cardinality({i \in DOMAIN bits : ~bits[i]})

\* the aggregate signature of the bitmap-selected keys over the message hash
GenuineSignature ==
    SumOfSignatures(Signers(signed_bitmap), pub_keys,
                    [i \in DOMAIN pub_keys |-> message_hashes[1]])

HasPairingCheck(system) ==
    \E k \in DOMAIN system : system[k].kind = "pairing_product_is_one"

C2_TooManyNonSignersUnsatisfiable ==
    /\ (/\ op \in {"enforce_bitmap", "verify", "cs_verify"}
        /\ NonSigners(signed_bitmap) > maximum_non_signers)
       => ~IsSatisfied(cs)
    /\ (/\ op = "constrain"
        /\ NonSigners(update.signed_bitmap) > previous.max_non_signers)
       => ~IsSatisfied(cs)

C2_Witness ==
    /\ op = "verify"
    /\ result = "Ok"
    /\ NonSigners(signed_bitmap) = 2
    /\ maximum_non_signers = 1
    /\ signature = GenuineSignature
    /\ ~IsSatisfied(cs)

\* C3 as claimed: a transition constrain built carries the pairing check of a
\* signature over the new epoch's message hash under the aggregate key of
\* the bitmap-selected previous validators.
C3_ConstrainChecksSignature ==
    (op = "constrain" /\ result = "Ok")
    => \E k \in DOMAIN cs :
          /\ cs[k].kind = "pairing_product_is_one"
          /\ \E i \in DOMAIN cs[k].p1 :
                /\ cs[k].p1[i] = PrepareG1(epoch.message_hash)
                /\ cs[k].p2[i] = PrepareG2(epoch.aggregate_pk)

\* C3 amended: constrain takes no signature and appends no pairing check; it
\* enforces the threshold of the previous epoch on the bitmap and returns the
\* new epoch's message hash with the aggregate key of the bitmap-selected
\* validators of the previous epoch, for the caller to verify a signature.
C3_ConstrainLeavesSignatureToCaller ==
    (op = "constrain" /\ result = "Ok")
    => /\ ~HasPairingCheck(cs)
       /\ IsSatisfied(cs) => NonSigners(update.signed_bitmap) <= previous.max_non_signers
       /\ epoch.message_hash = HashToG1(update.epoch_data)
       /\ Len(update.signed_bitmap) = Len(previous.pubkeys)
       /\ epoch.aggregate_pk = SumOfKeys(Signers(update.signed_bitmap), previous.pubkeys)

C3_Witness ==
    /\ op = "constrain"
    /\ result = "Ok"
    /\ IsSatisfied(cs)
    /\ Len(previous.pubkeys) = 2
    /\ update.signed_bitmap = <<TRUE, FALSE>>
    /\ previous.pubkeys # update.epoch_data.public_keys
    /\ epoch.aggregate_pk # G2Zero

\* C4: the aggregate key enforce_aggregated_pubkeys and enforce_bitmap
\* return, and the one in verify's pairing equation, is the group sum of
\* exactly the keys whose bit is true; no selected key gives the identity.
C4_AggregateIsSumOfSelected ==
    /\ (op \in {"enforce_aggregated_pubkeys", "enforce_bitmap"} /\ result = "Ok")
       => /\ aggregated_pk = SumOfKeys(Signers(signed_bitmap), pub_keys)
          /\ Signers(signed_bitmap) = {} => aggregated_pk = G2Zero
    /\ (op = "verify" /\ result = "Ok")
       => \E k \in DOMAIN cs :
             /\ cs[k].kind = "pairing_product_is_one"
             /\ cs[k].p1[2] = PrepareG1(message_hashes[1])
             /\ cs[k].p2[2] = PrepareG2(SumOfKeys(Signers(signed_bitmap), pub_keys))

C4_Witness ==
    /\ op = "enforce_aggregated_pubkeys"
    /\ result = "Ok"
    /\ signed_bitmap = <<FALSE, TRUE>>
    /\ pub_keys[1] # G2Zero
    /\ pub_keys[2] # G2Zero
    /\ pub_keys[1] # pub_keys[2]
    /\ aggregated_pk = pub_keys[2]

\* C5 as claimed: every validator set of a chain constructed with one
\* num_validators, the previous set given to a transition and the set it
\* emits, has exactly num_validators keys.
C5_ValidatorSetSizeFixed ==
    (op = "constrain" /\ result = "Ok")
    => /\ Len(epoch.new_pubkeys) = num_validators
       /\ Len(previous.pubkeys) = num_validators

\* C6 as claimed: the second transition of a chain, for an epoch with a
\* nonzero index whose parent entropy differs from the entropy the first
\* epoch emitted, is unsatisfiable with constrain_entropy_bit true, and its
\* entropy check holds with the bit false.
C6_EntropyMismatchUnsatisfiable ==
    (/\ op = "constrain"
     /\ result = "Ok"
     /\ steps = 2
     /\ update.epoch_data.index # 0
     /\ update.epoch_data.parent_entropy # previous.randomness)
    => IF entropy_bit
       THEN ~(earlier_satisfied /\ IsSatisfied(cs))
       ELSE \A k \in DOMAIN cs : cs[k].kind = "entropy_equal" => Holds(cs[k])

\* whether a constraint mentions the wires of the bitmap or of the keys
ReferencesBitmapOrKeys(c) == c.kind \in {"max_occurrences", "select"}

\* C7 as claimed: a bitmap of another length than the key list it is checked
\* against yields an error that is returned to the caller, raised before any
\* constraint over the bitmap or the keys is appended.
C7_LengthMismatchIsReturnedError ==
    (\/ /\ op \in {"enforce_aggregated_pubkeys", "enforce_bitmap", "verify"}
        /\ Len(signed_bitmap) # Len(pub_keys)
     \/ /\ op = "constrain"
        /\ Len(update.epoch_data.public_keys) = num_validators
        /\ Len(update.signed_bitmap) # Len(previous.pubkeys))
    => /\ result = "Err"
       /\ \A k \in DOMAIN cs : ~ReferencesBitmapOrKeys(cs[k])

\* C8 as claimed: batch_verify and batch_verify_prepared given different
\* numbers of keys and of hashes fail with an error, and no pairing product
\* over sequences of unequal length is enforced.
C8_BatchLengthMismatchFails ==
    (/\ op \in {"batch_verify", "batch_verify_prepared"}
     /\ Len(pub_keys) # Len(message_hashes))
    => /\ result = "Err"
       /\ ~HasPairingCheck(cs)

\* C9: for N keys and N hashes the system of batch_verify is satisfiable
\* exactly when the signature is the sum over i of key i's signature on hash
\* i, with one term for the signature and the negated generator.
C9_BatchAcceptsExactlySum ==
    (op = "batch_verify" /\ Len(pub_keys) = Len(message_hashes))
    => /\ result = "Ok"
       /\ IsSatisfied(cs)
            <=> (signature = SumOfSignatures(DOMAIN pub_keys, pub_keys, message_hashes))
       /\ \E k \in DOMAIN cs :
             /\ cs[k].kind = "pairing_product_is_one"
             /\ Len(cs[k].p1) = Len(pub_keys) + 1
             /\ cs[k].p1[1] = PrepareG1(signature)
             /\ cs[k].p2[1] = PrepareG2(G2Negate(G2Generator))

C9_Witness ==
    /\ op = "batch_verify"
    /\ Len(pub_keys) = 2
    /\ Len(message_hashes) = 2
    /\ message_hashes[1] # message_hashes[2]
    /\ \A i \in 1 .. 2 : pub_keys[i] # G2Zero /\ message_hashes[i] # 0
    /\ signature # 0
    /\ IsSatisfied(cs)

C11_IdentityKeyUnsatisfiable ==
    (/\ op \in {"verify", "cs_verify"}
     /\ result = "Ok"
     /\ \E i \in DOMAIN pub_keys : pub_keys[i] = G2Zero)
    => ~IsSatisfied(cs)

\* the bitmap of the constrained transition is checked in system against the
\* validator set and the threshold of context, and the epoch carries its own
ChecksBitmapAgainst(system, context, new_update, constrained) ==
    /\ \E k \in DOMAIN system :
          /\ system[k].kind = "max_occurrences"
          /\ system[k].bits = new_update.signed_bitmap
          /\ system[k].a = context.max_non_signers
    /\ \A k \in DOMAIN system :
          system[k].kind = "max_occurrences"
          => system[k].a = context.max_non_signers
    /\ Len(new_update.signed_bitmap) = Len(context.pubkeys)
    /\ \A i \in DOMAIN context.pubkeys :
          \E k \in DOMAIN system :
             /\ system[k].kind = "select"
             /\ system[k].g2 = <<context.pubkeys[i]>>
             /\ system[k].bits = <<new_update.signed_bitmap[i]>>
    /\ constrained.aggregate_pk
          = SumOfKeys(Signers(new_update.signed_bitmap), context.pubkeys)
    /\ IsSatisfied(system)
          => NonSigners(new_update.signed_bitmap) <= context.max_non_signers

\* C12: in a chain, every transition checks its bitmap (number of non-signers
\* and aggregate key) against the validator set and the threshold of the
\* context it was handed, which are those the epoch before it declared, never
\* against its own, and emits its own set and threshold, which the next
\* transition is handed.
C12_ChainChecksAgainstPreviousEpoch ==
    [][/\ (op' = "constrain" /\ result' = "Ok")
          => /\ ChecksBitmapAgainst(cs', previous, update', epoch')
             /\ epoch'.new_pubkeys = update'.epoch_data.public_keys
             /\ epoch'.new_max_non_signers = update'.epoch_data.maximum_non_signers
       /\ (op' = "handoff")
          => /\ previous'.pubkeys = update.epoch_data.public_keys
             /\ previous'.max_non_signers = update.epoch_data.maximum_non_signers
      ]_vars

C12_Witness ==
    /\ op = "constrain"
    /\ result = "Ok"
    /\ steps = 2
    /\ earlier_satisfied
    /\ IsSatisfied(cs)
    /\ Len(previous.pubkeys) = 2
    /\ update.signed_bitmap = <<FALSE, TRUE>>
    /\ previous.max_non_signers = 1
    /\ update.epoch_data.maximum_non_signers = 0
    /\ previous.pubkeys # update.epoch_data.public_keys
    /\ epoch.aggregate_pk = previous.pubkeys[2]
    /\ epoch.new_pubkeys = update.epoch_data.public_keys

\* the constraints of system other than the entropy check
WithoutEntropyCheck(system) ==
    SelectSeq(system, LAMBDA c : c.kind # "entropy_equal")

C14_FailuresArePropagated ==
    (/\ op \in {"verify", "batch_verify", "enforce_bitmap",
                "enforce_aggregated_pubkeys", "constrain"}
     /\ failed_call # "none")
    => result = "Err"

====
